---------------------------- MODULE Spec2Model ----------------------------
(***************************************************************************)
(* The user-settings endpoints of the API server (settingRoutes) and the   *)
(* presentational components ProgressBar and AuthOrProfile.                *)
(*                                                                         *)
(* Strings whose characters matter (usernames, e-mail addresses, message   *)
(* texts) are sequences of one-character strings, so trim, toLowerCase and *)
(* template literals are computed.  A flash message is a sequence of       *)
(* chunks: a translation key is the one-chunk sequence <<key>>.            *)
(***************************************************************************)
EXTENDS Integers, Sequences, FiniteSets, TLC

VARIABLES
    users,      \* the user collection behind fastify.prisma.user, by id
    inflight,   \* per session: the /update-my-username request awaiting an ORM call
    last,       \* the request answered last: what was asked, what was done, the reply
    nreq,       \* requests received so far
    ui          \* the last component rendered, with its props and its output

vars == <<users, inflight, last, nreq, ui>>

--------------------------------------------------------------------------
(* Bounds of the model *)

MaxRequests == 2
MaxPortfolio == 2
MaxNow == 3

--------------------------------------------------------------------------
(* JavaScript values *)

Undefined == [t |-> "undefined"]
Null == [t |-> "null"]
Str(v) == [t |-> "string", v |-> v]
Array(v) == [t |-> "array", v |-> v]

IsString(x) == x.t = "string"

Bool(v) == [t |-> "boolean", v |-> v]

\* JavaScript truthiness: undefined, null, false and '' are falsy; every
\* array, the empty one too, is truthy.
Truthy(x) ==
    CASE x.t = "string" -> x.v # <<>>
      [] x.t = "array" -> TRUE
      [] x.t = "object" -> TRUE
      [] x.t = "boolean" -> x.v
      [] OTHER -> FALSE

LowerCaseLetters ==
    <<"a","b","c","d","e","f","g","h","i","j","k","l","m",
      "n","o","p","q","r","s","t","u","v","w","x","y","z">>
UpperCaseLetters ==
    <<"A","B","C","D","E","F","G","H","I","J","K","L","M",
      "N","O","P","Q","R","S","T","U","V","W","X","Y","Z">>
WhiteSpace == {" "}

Lower(c) ==
    IF \E i \in DOMAIN UpperCaseLetters : UpperCaseLetters[i] = c
    THEN LowerCaseLetters[CHOOSE i \in DOMAIN UpperCaseLetters : UpperCaseLetters[i] = c]
    ELSE c

\* String.prototype.toLowerCase
toLowerCase(s) == [i \in DOMAIN s |-> Lower(s[i])]

RECURSIVE TrimStart(_)
TrimStart(s) ==
    IF s # <<>> /\ Head(s) \in WhiteSpace THEN TrimStart(Tail(s)) ELSE s

RECURSIVE TrimEnd(_)
TrimEnd(s) ==
    IF s # <<>> /\ s[Len(s)] \in WhiteSpace
    THEN TrimEnd(SubSeq(s, 1, Len(s) - 1))
    ELSE s

\* String.prototype.trim
trim(s) == TrimEnd(TrimStart(s))

--------------------------------------------------------------------------
(* Replies *)

Key(k) == <<k>>

Reply(by, status, message, type) ==
    [by |-> by, status |-> status, message |-> message, type |-> type]

\* `void reply.code(500); return { message: 'flash.wrong-updating', type: 'danger' }`
WrongUpdating500 == Reply("handler", 500, Key("flash.wrong-updating"), "danger")

\* An error raised before the route handler runs.  Fastify gives a schema
\* validation error a `validation` list and status code 400.
ValidationError ==
    [validation |-> TRUE, statusCode |-> 400,
     message |-> <<"body", " must match the schema">>]
\* An error raised by one of the onRequest hooks.
HookError(hook) ==
    [validation |-> FALSE,
     statusCode |-> IF hook = "csrfProtection" THEN 403 ELSE 401,
     message |-> <<hook, " rejected the request">>]
\* An error thrown by an ORM call that no try block of the handler encloses.
OrmError ==
    [validation |-> FALSE, statusCode |-> 0,
     message |-> <<"prisma", " call failed">>]

\* fastify.errorHandler, the server's default error handler: the body is
\* {statusCode, error, message}, with no `type`.
fastifyErrorHandler(error) ==
    Reply("fastify.errorHandler",
          IF error.statusCode >= 400 THEN error.statusCode ELSE 500,
          error.message, "undefined")

\* updateErrorHandler passing the validator's text on as the message.
updateErrorHandlerEchoesError(error) ==
    IF error.validation
    THEN Reply("updateErrorHandler", 400, error.message, "danger")
    ELSE fastifyErrorHandler(error)

\* updateErrorHandler without its else branch: every error answered as a
\* validation failure.
updateErrorHandlerAnswersAll(error) ==
    Reply("updateErrorHandler", 400, Key("flash.wrong-updating"), "danger")

updateErrorHandler(error) ==
    IF error.validation
    THEN Reply("updateErrorHandler", 400, Key("flash.wrong-updating"), "danger")
    ELSE fastifyErrorHandler(error)

\* The onRequest hooks, in the order they run.  One rejection stands for both:
\* either ends the request at the route's error handler.
Hooks == {"csrfProtection"}

--------------------------------------------------------------------------
(* The user store *)

ProfileUIFlags ==
    {"isLocked", "showAbout", "showCerts", "showDonation", "showHeatMap",
     "showLocation", "showName", "showPoints", "showPortfolio", "showTimeLine"}

UserNames == << <<"b","o","b">>, <<"a","m","y">>, <<"e","v","e">> >>

\* Every user has a distinct lower-case username, as the username handler
\* stores them; usernameDisplay is null for an account that never set one.
UserDisplayNames == << <<"B","o","b">>, <<"A","m","y">>, <<"E","v","e">> >>

\* The accounts of the store, by id, and the signed-in ones: each session is
\* its user's, so req.session.user.id is the session's own id.
UserIds == DOMAIN UserNames
Sessions == {1, 2}

InitialUser(i) ==
    [username |-> UserNames[i],
     usernameDisplay |-> IF i % 2 = 1 THEN Str(UserDisplayNames[i]) ELSE Null,
     email |-> UserNames[i] \o <<"@","x">>,
     profileUI |-> [f \in ProfileUIFlags |-> FALSE],
     theme |-> "default",
     website |-> "", twitter |-> "", githubProfile |-> "", linkedin |-> "",
     about |-> "", name |-> "", location |-> "", picture |-> <<>>,
     keyboardShortcuts |-> FALSE,
     sendQuincyEmail |-> FALSE,
     isHonest |-> FALSE,
     acceptedPrivacyTerms |-> FALSE,
     portfolio |-> <<>>]

\* prisma.user.update({ where: { id }, data }): the fields of `data` replace
\* those of the record, the others stay.
Merge(record, data) ==
    [f \in DOMAIN record |-> IF f \in DOMAIN data THEN data[f] ELSE record[f]]

\* An update whose `where` is lost: every record takes the data.
PrismaUserUpdateMany(id, data) == [u \in UserIds |-> Merge(users[u], data)]

PrismaUserUpdate(id, data) == [users EXCEPT ![id] = Merge(@, data)]

\* prisma.user.count({ where: { username } })
PrismaUserCount(username) ==
    Cardinality({u \in UserIds : users[u].username = username})

--------------------------------------------------------------------------
(* Requests and their answers *)

Endpoints ==
    {"update-my-profileui", "update-my-email", "update-my-theme",
     "update-my-socials", "update-my-username", "update-my-about",
     "update-my-keyboard-shortcuts", "update-my-quincy-email",
     "update-my-honesty", "update-privacy-terms", "update-my-portfolio"}

\* The body of a request that a hook rejected, or that failed validation on a
\* route whose handler then does not run: nothing reads it.
NotRead == [read |-> FALSE]
NothingSeen == [read |-> FALSE]
\* The body of a request whose reply does not depend on it.
AnyBody == [read |-> TRUE]

Exchange(endpoint, hook, validationError, body, handlerRan, updates, ormFailed, seen, reply) ==
    [endpoint |-> endpoint, hook |-> hook, validationError |-> validationError,
     body |-> body, handlerRan |-> handlerRan, updates |-> updates,
     ormFailed |-> ormFailed, seen |-> seen, reply |-> reply]

NoExchange ==
    Exchange("none", "ok", FALSE, NotRead, FALSE, 0, FALSE, NothingSeen,
             Reply("none", 0, <<>>, "undefined"))

NoInflight == [pc |-> "idle"]
NoRender == [component |-> "none"]

Receive ==
    /\ nreq < MaxRequests
    /\ nreq' = nreq + 1

\* The reply to session s's request is sent.
Answer(s, exchange) == last' = [session |-> s] @@ exchange

\* The routes registered with `errorHandler: updateErrorHandler`; on the
\* others an error raised before the handler goes to fastify.errorHandler.
UpdateErrorHandlerRoutes ==
    {"update-my-profileui", "update-my-theme", "update-my-socials",
     "update-my-keyboard-shortcuts", "update-my-quincy-email",
     "update-my-honesty", "update-privacy-terms", "update-my-portfolio"}

\* The routes registered with `attachValidation: true`: their handler runs
\* with req.validationError set when the body fails the schema.
AttachValidationRoutes == {"update-my-email", "update-my-username"}

RouteErrorHandler(endpoint, error) ==
    IF endpoint \in UpdateErrorHandlerRoutes
    THEN updateErrorHandler(error)
    ELSE fastifyErrorHandler(error)

\* An onRequest hook rejects the request: the route's error handler answers and
\* neither validation nor the handler runs.
OnRequestHookRejects(s) ==
    /\ Receive
    /\ UNCHANGED <<users, inflight, ui>>
    /\ \E endpoint \in Endpoints, hook \in Hooks :
          Answer(s, Exchange(endpoint, hook, FALSE, NotRead, FALSE, 0, FALSE, NothingSeen,
                             RouteErrorHandler(endpoint, HookError(hook))))

\* The body fails the schema of a route that does not attach validation: the
\* route's error handler answers and the handler does not run.
SchemaRejects(s) ==
    /\ Receive
    /\ UNCHANGED <<users, inflight, ui>>
    /\ \E endpoint \in Endpoints \ AttachValidationRoutes :
          Answer(s, Exchange(endpoint, "ok", TRUE, NotRead, FALSE, 0, FALSE, NothingSeen,
                             RouteErrorHandler(endpoint, ValidationError)))

\* A handler that replies success without making the update call.
TryUpdateWithoutCall(s, endpoint, body, data, okKey) ==
    /\ UNCHANGED users
    /\ Answer(s, Exchange(endpoint, "ok", FALSE, body, TRUE, 0, FALSE, NothingSeen,
                          Reply("handler", 200, Key(okKey), "success")))

\* A handler that is one try block around `await fastify.prisma.user.update(
\* { where: { id: req.session.user.id }, data })`: the success reply when the
\* call resolves, status 500 and 'flash.wrong-updating' when it rejects (the
\* reply is then the same for every body, which is not recorded).
TryUpdate(s, endpoint, body, data, okKey) ==
    /\ users' = PrismaUserUpdate(s, data)
    /\ Answer(s, Exchange(endpoint, "ok", FALSE, body, TRUE, 1, FALSE, NothingSeen,
                          Reply("handler", 200, Key(okKey), "success")))

UpdateRejects(s, endpoint) ==
    /\ UNCHANGED users
    /\ Answer(s, Exchange(endpoint, "ok", FALSE, AnyBody, TRUE, 1, TRUE, NothingSeen,
                          WrongUpdating500))

--------------------------------------------------------------------------
(* PUT /update-my-profileui *)

\* Two complementary settings of the flags.
ProfileUIBodies ==
    LET shown == {"isLocked", "showCerts", "showHeatMap", "showName", "showPortfolio"}
    IN  {[profileUI |-> [f \in ProfileUIFlags |-> (f \in shown) = b]] : b \in BOOLEAN}

updateMyProfileUIData(body) ==
    [profileUI |->
        [isLocked |-> body.profileUI.isLocked,
         showAbout |-> body.profileUI.showAbout,
         showCerts |-> body.profileUI.showCerts,
         showDonation |-> body.profileUI.showDonation,
         showHeatMap |-> body.profileUI.showHeatMap,
         showLocation |-> body.profileUI.showLocation,
         showName |-> body.profileUI.showName,
         showPoints |-> body.profileUI.showPoints,
         showPortfolio |-> body.profileUI.showPortfolio,
         showTimeLine |-> body.profileUI.showTimeLine]]

UpdateMyProfileUI(s) ==
    /\ Receive
    /\ UNCHANGED <<inflight, ui>>
    /\ \/ UpdateRejects(s, "update-my-profileui")
       \/ \E body \in ProfileUIBodies :
              TryUpdate(s, "update-my-profileui", body, updateMyProfileUIData(body),
                        "flash.privacy-updated")

(* PUT /update-my-theme *)

ThemeBodies == {[theme |-> t] : t \in {"default", "night"}}

updateMyThemeData(body) == [theme |-> body.theme]

UpdateMyTheme(s) ==
    /\ Receive
    /\ UNCHANGED <<inflight, ui>>
    /\ \/ UpdateRejects(s, "update-my-theme")
       \/ \E body \in ThemeBodies :
              TryUpdate(s, "update-my-theme", body, updateMyThemeData(body),
                        "flash.updated-themes")

(* PUT /update-my-socials *)

SocialsBodies ==
    {[website |-> "https://example.com", twitter |-> "@me",
      githubProfile |-> "https://github.com/me", linkedin |-> "https://linkedin.com/in/me"]}

updateMySocialsData(body) ==
    [website |-> body.website,
     twitter |-> body.twitter,
     githubProfile |-> body.githubProfile,
     linkedin |-> body.linkedin]

UpdateMySocials(s) ==
    /\ Receive
    /\ UNCHANGED <<inflight, ui>>
    /\ \/ UpdateRejects(s, "update-my-socials")
       \/ \E body \in SocialsBodies :
              TryUpdate(s, "update-my-socials", body, updateMySocialsData(body),
                        "flash.updated-socials")

(* PUT /update-my-keyboard-shortcuts *)

KeyboardShortcutsBodies == {[keyboardShortcuts |-> b] : b \in BOOLEAN}

updateMyKeyboardShortcutsData(body) == [keyboardShortcuts |-> body.keyboardShortcuts]

UpdateMyKeyboardShortcuts(s) ==
    /\ Receive
    /\ UNCHANGED <<inflight, ui>>
    /\ \/ UpdateRejects(s, "update-my-keyboard-shortcuts")
       \/ \E body \in KeyboardShortcutsBodies :
              TryUpdate(s, "update-my-keyboard-shortcuts", body, updateMyKeyboardShortcutsData(body),
                        "flash.keyboard-shortcut-updated")

(* PUT /update-my-quincy-email *)

QuincyEmailBodies == {[sendQuincyEmail |-> b] : b \in BOOLEAN}

updateMyQuincyEmailData(body) == [sendQuincyEmail |-> body.sendQuincyEmail]

UpdateMyQuincyEmail(s) ==
    /\ Receive
    /\ UNCHANGED <<inflight, ui>>
    /\ \/ UpdateRejects(s, "update-my-quincy-email")
       \/ \E body \in QuincyEmailBodies :
              TryUpdate(s, "update-my-quincy-email", body, updateMyQuincyEmailData(body),
                        "flash.subscribe-to-quincy-updated")

(* PUT /update-my-honesty *)

HonestyBodies == {[isHonest |-> b] : b \in BOOLEAN}

updateMyHonestyData(body) == [isHonest |-> body.isHonest]

UpdateMyHonesty(s) ==
    /\ Receive
    /\ UNCHANGED <<inflight, ui>>
    /\ \/ UpdateRejects(s, "update-my-honesty")
       \/ \E body \in HonestyBodies :
              TryUpdate(s, "update-my-honesty", body, updateMyHonestyData(body),
                        "buttons.accepted-honesty")

(* PUT /update-privacy-terms *)

PrivacyTermsBodies == {[quincyEmails |-> b] : b \in BOOLEAN}

updatePrivacyTermsData(body) ==
    [acceptedPrivacyTerms |-> TRUE, sendQuincyEmail |-> body.quincyEmails]

UpdatePrivacyTerms(s) ==
    /\ Receive
    /\ UNCHANGED <<inflight, ui>>
    /\ \/ UpdateRejects(s, "update-privacy-terms")
       \/ \E body \in PrivacyTermsBodies :
              TryUpdate(s, "update-privacy-terms", body, updatePrivacyTermsData(body),
                        "flash.privacy-updated")

(* PUT /update-my-about *)

RECURSIVE IndexOf(_, _, _)
\* The first position at or after i where c occurs in s, or 0.
IndexOf(s, c, i) ==
    IF i > Len(s) THEN 0 ELSE IF s[i] = c THEN i ELSE IndexOf(s, c, i + 1)

Letters == {LowerCaseLetters[i] : i \in DOMAIN LowerCaseLetters}
            \cup {UpperCaseLetters[i] : i \in DOMAIN UpperCaseLetters}

\* new URL(input): throws unless the input starts with a scheme (letters, then
\* ':'); `protocol` is the scheme in lower case with its colon.
NewURL(input) ==
    LET colon == IndexOf(input, ":", 1)
        scheme == SubSeq(input, 1, colon - 1)
    IN  IF colon > 1 /\ \A i \in DOMAIN scheme : scheme[i] \in Letters
        THEN [throws |-> FALSE, protocol |-> toLowerCase(scheme) \o <<":">>]
        ELSE [throws |-> TRUE, protocol |-> <<>>]

isPictureWithProtocol(picture) ==
    IF ~Truthy(picture) THEN FALSE
    ELSE LET url == NewURL(picture.v)
         IN  IF url.throws THEN FALSE
             ELSE \/ url.protocol = <<"h","t","t","p",":">>
                  \/ url.protocol = <<"h","t","t","p","s",":">>

Pictures ==
    {Undefined,
     Str(<<"h","t","t","p","s",":","/","/","a">>),
     Str(<<"H","T","T","P",":","/","/","a">>),
     Str(<<"f","t","p",":","/","/","a">>),
     Str(<<"a",".","p","n","g">>)}

AboutBodies ==
    {[about |-> "I code", name |-> "Bob B", location |-> "Earth", picture |-> p] :
        p \in Pictures}

updateMyAboutData(body) ==
    LET hasProtocol == isPictureWithProtocol(body.picture)
    IN  IF hasProtocol
        THEN [about |-> body.about, name |-> body.name, location |-> body.location,
              picture |-> body.picture.v]
        ELSE [about |-> body.about, name |-> body.name, location |-> body.location]

UpdateMyAbout(s) ==
    /\ Receive
    /\ UNCHANGED <<inflight, ui>>
    /\ \/ UpdateRejects(s, "update-my-about")
       \/ \E body \in AboutBodies :
              TryUpdate(s, "update-my-about", body, updateMyAboutData(body),
                        "flash.updated-about-me")

(* PUT /update-my-portfolio *)

PortfolioFields == {"id", "title", "url", "description", "image"}

PortfolioItems ==
    {[id |-> Str(<<"1">>), title |-> Str(<<"t">>), url |-> Str(<<"u">>),
      description |-> Str(<<"d">>), image |-> Str(<<"i">>)],
     [id |-> Undefined, title |-> Str(<<>>), url |-> Str(<<"v">>),
      description |-> Undefined, image |-> Str(<<>>)]}

SeqsUpTo(S, n) == UNION {[1..k -> S] : k \in 0..n}

PortfolioBodies == {[portfolio |-> p] : p \in SeqsUpTo(PortfolioItems, MaxPortfolio)}

updateMyPortfolioData(body) ==
    LET portfolio ==
            [i \in DOMAIN body.portfolio |->
                LET item == body.portfolio[i]
                IN  [id |-> IF Truthy(item.id) THEN item.id.v ELSE <<>>,
                     title |-> IF Truthy(item.title) THEN item.title.v ELSE <<>>,
                     url |-> IF Truthy(item.url) THEN item.url.v ELSE <<>>,
                     description |->
                        IF Truthy(item.description) THEN item.description.v ELSE <<>>,
                     image |-> IF Truthy(item.image) THEN item.image.v ELSE <<>>]]
    IN  [portfolio |-> portfolio]

UpdateMyPortfolio(s) ==
    /\ Receive
    /\ UNCHANGED <<inflight, ui>>
    /\ \/ UpdateRejects(s, "update-my-portfolio")
       \/ \E body \in PortfolioBodies :
              TryUpdate(s, "update-my-portfolio", body, updateMyPortfolioData(body),
                        "flash.portfolio-item-updated")

--------------------------------------------------------------------------
(* PUT /update-my-email *)

\* `let fiveMinuteLimit: Date;` is declared without a value and nothing in the
\* module assigns it: it is undefined for the life of the server.
fiveMinuteLimit == "undefined"

\* date-fns isPast: the date's time value is less than now.  The time value
\* of undefined is NaN, and NaN < now is false.
isPast(date) == date = "past"

\* Intl.DateTimeFormat('en-US', { dateStyle: 'full', timeStyle: 'long' })
\* .format(date), which formats the current time for undefined.
FormatDate(date) ==
    IF date = "undefined" THEN <<"(the current time, formatted)">>
    ELSE <<"(the limit, formatted)">>

\* body: Type.Object({ email: Type.String({ format: 'email' }) }): a string
\* with one '@' and something on both sides of it.
EmailSchemaAccepts(body) ==
    /\ IsString(body.email)
    /\ LET at == IndexOf(body.email.v, "@", 1)
       IN  /\ at > 1
           /\ at < Len(body.email.v)
           /\ IndexOf(body.email.v, "@", at + 1) = 0

EmailBodies ==
    {[email |-> e] :
        e \in {Undefined, Str(<<"z","e","d">>),
               Str(<<"B","o","b","@","x">>), Str(<<"Z","e","d","@","x">>)}}

EmailSameMessage(newEmail) ==
    newEmail \o <<" is already associated with this account.",
                  "\nYou can update a new email address instead.">>

EmailLimitMessage(newEmail, formattedLimitedTime) ==
    <<"\n        We have already sent an email confirmation request to ">>
        \o newEmail \o <<".", "\n        ">> \o formattedLimitedTime

\* The handler after findUniqueOrThrow resolved with `userEmail`.
EmailAfterLookup(s, body, userEmail) ==
    LET newEmail == toLowerCase(body.email.v)
        currentEmailFormated == toLowerCase(userEmail.email)
        isSameEmail == newEmail = currentEmailFormated
        seen == [email |-> userEmail.email]
    IN  IF isSameEmail
        THEN /\ UNCHANGED users
             /\ Answer(s, Exchange("update-my-email", "ok", FALSE, body, TRUE, 0, FALSE, seen,
                                   Reply("handler", 400, EmailSameMessage(newEmail), "info")))
        ELSE IF ~isPast(fiveMinuteLimit)
        THEN /\ UNCHANGED users
             /\ Answer(s, Exchange("update-my-email", "ok", FALSE, body, TRUE, 0, FALSE, seen,
                                   Reply("handler", 200,
                                         EmailLimitMessage(newEmail, FormatDate(fiveMinuteLimit)),
                                         "info")))
        ELSE \/ /\ users' = PrismaUserUpdate(s, [email |-> newEmail])
                /\ Answer(s, Exchange("update-my-email", "ok", FALSE, body, TRUE, 1, FALSE, seen,
                                      Reply("handler", 200, Key("flash.email-valid"), "success")))
             \/ /\ UNCHANGED users
                /\ Answer(s, Exchange("update-my-email", "ok", FALSE, body, TRUE, 1, TRUE, seen,
                                      WrongUpdating500))

\* attachValidation: the handler runs with req.validationError set when the
\* body fails the schema.  findUniqueOrThrow is awaited outside the try block.
\* No request gets past the fiveMinuteLimit test, so none awaits a second ORM
\* call and the handler is one step.
UpdateMyEmail(s) ==
    /\ Receive
    /\ UNCHANGED <<inflight, ui>>
    /\ \/ /\ UNCHANGED users
          /\ Answer(s, Exchange("update-my-email", "ok", FALSE, AnyBody, TRUE, 0, TRUE,
                                NothingSeen, fastifyErrorHandler(OrmError)))
       \/ \E body \in EmailBodies :
              IF ~EmailSchemaAccepts(body)
              THEN /\ UNCHANGED users
                   /\ Answer(s, Exchange("update-my-email", "ok", TRUE, body, TRUE, 0, FALSE,
                                         NothingSeen,
                                         Reply("handler", 400, <<"Email format is invalid">>,
                                               "danger")))
              ELSE EmailAfterLookup(s, body, [email |-> users[s].email])

--------------------------------------------------------------------------
(* PUT /update-my-username *)

UsernameValidChars == Letters \cup {"0","1","2","3","4","5","6","7","8","9","-","_"}

\* shared/utils/validate: the name is made of letters, digits, '-' and '_'
\* and has at least three characters.
isValidUsername(str) ==
    IF \E i \in DOMAIN str : str[i] \notin UsernameValidChars
    THEN [valid |-> FALSE, error |-> <<"contains invalid characters.">>]
    ELSE IF Len(str) < 3
    THEN [valid |-> FALSE, error |-> <<"is too short">>]
    ELSE [valid |-> TRUE, error |-> <<>>]

\* no-profanity's isProfane, for the names of the model.
isProfane(str) == str \in {<<"a","s","s">>}

\* shared/config/constants
blocklistedUsernames == {<<"w","w","w">>}

UsernameInputs ==
    {<<"B","o","b">>, <<" ","b","o","b"," ">>, <<"a","m","y">>, <<"Z","e","d">>,
     <<"b","!","b">>, <<"a","s","s">>, <<"w","w","w">>}

UsernameBodies ==
    {[username |-> u] : u \in {Undefined, Array(<<>>)} \cup {Str(v) : v \in UsernameInputs}}

\* schemas.updateMyUsername asks for a string `username`; what else it asks
\* of the string is left open: a string may pass or fail.
UsernameValidationOutcomes(body) ==
    IF IsString(body.username) THEN BOOLEAN ELSE {TRUE}

UsernameInvalidMessage(newUsername, error) ==
    <<"U","s","e","r","n","a","m","e"," ">> \o newUsername \o <<" ">> \o error

UsernameExchange(body, validationError, updates, ormFailed, seen, reply) ==
    Exchange("update-my-username", "ok", validationError, body, TRUE, updates, ormFailed, seen, reply)

NotCounted == 0 - 1

\* The handler from findFirstOrThrow's result `user` to its next await: the
\* reply it returns, or the ORM call it goes on to make.
UsernameAfterLookup(body, validationError, user) ==
    IF ~IsString(body.username)
    THEN \* req.body.username.trim() throws a TypeError, which the catch answers
         [next |-> "reply", reply |-> WrongUpdating500]
    ELSE
    LET newUsernameDisplay == trim(body.username.v)
        oldUsernameDisplay ==
            IF IsString(user.usernameDisplay)
            THEN Str(trim(user.usernameDisplay.v)) ELSE Undefined
        newUsername == toLowerCase(newUsernameDisplay)
        oldUsername == toLowerCase(user.username)
        usernameUnchanged ==
            newUsername = oldUsername /\ Str(newUsernameDisplay) = oldUsernameDisplay
        validation == isValidUsername(newUsername)
        isUserNameProfane == isProfane(newUsername)
        onBlocklist == newUsername \in blocklistedUsernames
    IN  IF usernameUnchanged
        THEN [next |-> "reply",
              reply |-> Reply("handler", 400, Key("flash.username-used"), "info")]
        ELSE IF validationError
        THEN [next |-> "reply",
              reply |-> Reply("handler", 400, ValidationError.message, "info")]
        ELSE IF ~validation.valid
        THEN [next |-> "reply",
              reply |-> Reply("handler", 400,
                              UsernameInvalidMessage(newUsername, validation.error), "info")]
        ELSE IF newUsername # oldUsername
        THEN [next |-> "count", newUsername |-> newUsername,
              newUsernameDisplay |-> newUsernameDisplay]
        ELSE IF isUserNameProfane \/ onBlocklist
        THEN [next |-> "reply",
              reply |-> Reply("handler", 400, Key("flash.username-taken"), "info")]
        ELSE [next |-> "update", newUsername |-> newUsername,
              newUsernameDisplay |-> newUsernameDisplay]

\* The request arrives and findFirstOrThrow is awaited.
UsernameLookup(s) ==
    /\ Receive
    /\ inflight[s].pc = "idle"
    /\ UNCHANGED <<users, ui>>
    /\ \/ \E validationError \in BOOLEAN :
              /\ Answer(s, UsernameExchange(AnyBody, validationError, 0, TRUE, NothingSeen,
                                            WrongUpdating500))
              /\ UNCHANGED inflight
       \/ \E body \in UsernameBodies :
          \E validationError \in UsernameValidationOutcomes(body) :
                 LET user == [username |-> users[s].username,
                              usernameDisplay |-> users[s].usernameDisplay]
                     seen == [user |-> user, count |-> NotCounted]
                     r == UsernameAfterLookup(body, validationError, user)
                 IN  IF r.next = "reply"
                     THEN /\ Answer(s, UsernameExchange(body, validationError, 0, FALSE, seen,
                                                        r.reply))
                          /\ UNCHANGED inflight
                     ELSE /\ inflight' =
                                [inflight EXCEPT ![s] =
                                    [pc |-> r.next, body |-> body, seen |-> seen,
                                     newUsername |-> r.newUsername,
                                     newUsernameDisplay |-> r.newUsernameDisplay]]
                          /\ UNCHANGED last

\* prisma.user.count({ where: { username: newUsername } }) resolves or rejects.
UsernameCount(s) ==
    LET f == inflight[s]
    IN  /\ f.pc = "count"
        /\ UNCHANGED <<users, nreq, ui>>
        /\ \/ /\ Answer(s, UsernameExchange(f.body, FALSE, 0, TRUE, f.seen, WrongUpdating500))
              /\ inflight' = [inflight EXCEPT ![s] = NoInflight]
           \/ LET usernameTaken == PrismaUserCount(f.newUsername)
                  seen == [f.seen EXCEPT !.count = usernameTaken]
              IN  IF usernameTaken # 0 \/ isProfane(f.newUsername)
                        \/ f.newUsername \in blocklistedUsernames
                  THEN /\ Answer(s, UsernameExchange(f.body, FALSE, 0, FALSE, seen,
                                     Reply("handler", 400, Key("flash.username-taken"), "info")))
                       /\ inflight' = [inflight EXCEPT ![s] = NoInflight]
                  ELSE /\ inflight' = [inflight EXCEPT ![s] = [f EXCEPT !.pc = "update", !.seen = seen]]
                       /\ UNCHANGED last

\* prisma.user.update({ data: { username, usernameDisplay } }) resolves or rejects.
UsernameUpdate(s) ==
    LET f == inflight[s]
    IN  /\ f.pc = "update"
        /\ UNCHANGED <<nreq, ui>>
        /\ inflight' = [inflight EXCEPT ![s] = NoInflight]
        /\ \/ /\ users' = PrismaUserUpdate(s, [username |-> f.newUsername,
                                               usernameDisplay |-> Str(f.newUsernameDisplay)])
              /\ Answer(s, UsernameExchange(f.body, FALSE, 1, FALSE, f.seen,
                            Reply("handler", 200, Key("flash.username-updated"), "success")))
           \/ /\ UNCHANGED users
              /\ Answer(s, UsernameExchange(f.body, FALSE, 1, TRUE, f.seen, WrongUpdating500))

--------------------------------------------------------------------------
(* The server *)

Init ==
    /\ users = [i \in UserIds |-> InitialUser(i)]
    /\ inflight = [s \in Sessions |-> NoInflight]
    /\ last = [session |-> 0] @@ NoExchange
    /\ nreq = 0
    /\ ui = NoRender

Next ==
    \E s \in Sessions :
        \/ OnRequestHookRejects(s)
        \/ SchemaRejects(s)
        \/ UpdateMyProfileUI(s)
        \/ UpdateMyEmail(s)
        \/ UpdateMyTheme(s)
        \/ UpdateMySocials(s)
        \/ UsernameLookup(s)
        \/ UsernameCount(s)
        \/ UsernameUpdate(s)
        \/ UpdateMyAbout(s)
        \/ UpdateMyKeyboardShortcuts(s)
        \/ UpdateMyQuincyEmail(s)
        \/ UpdateMyHonesty(s)
        \/ UpdatePrivacyTerms(s)
        \/ UpdateMyPortfolio(s)

Spec == Init /\ [][Next]_vars

--------------------------------------------------------------------------
(* The components *)

DigitChars == <<"0","1","2","3","4","5","6","7","8","9">>

RECURSIVE NatToString(_)
NatToString(n) ==
    IF n < 10 THEN <<DigitChars[n + 1]>>
    ELSE NatToString(n \div 10) \o <<DigitChars[(n % 10) + 1]>>

\* `${now}` for an integer `now`.
NumberToString(n) == IF n < 0 THEN <<"-">> \o NatToString(0 - n) ELSE NatToString(n)

\* A progress bar that clamps its width to 0..100.
ProgressBarClamped(now) ==
    <<[className |-> "progress-bar-background"],
      [className |-> "progress-bar-percent",
       style |-> [width |-> NumberToString(IF now < 0 THEN 0 ELSE IF now > 100 THEN 100 ELSE now)
                            \o <<"%">>]]>>

ProgressBar(now) ==
    <<[className |-> "progress-bar-background"],
      [className |-> "progress-bar-percent",
       style |-> [width |-> NumberToString(now) \o <<"%">>]]>>

CurriculumLink == [className |-> "nav-link", to |-> <<"/","l","e","a","r","n">>, text |-> "Curriculum"]

AuthOrProfile(user, pending) ==
    LET isUserDonating == IF Truthy(user) THEN user.isDonating ELSE user
        isUserSignedIn == IF Truthy(user) THEN user.username ELSE user
        isTopContributor ==
            IF ~Truthy(user) THEN user
            ELSE IF ~Truthy(user.yearsTopContributor) THEN user.yearsTopContributor
            ELSE Bool(Len(user.yearsTopContributor.v) > 0)
    IN  IF Truthy(pending)
        THEN [kind |-> "nav-skeleton"]
        ELSE IF ~Truthy(isUserSignedIn)
        THEN [kind |-> "sign-in", links |-> <<CurriculumLink>>, login |-> "Sign In"]
        ELSE [kind |-> "profile",
              links |-> <<CurriculumLink,
                          [className |-> "nav-link", to |-> <<"/">> \o user.username.v,
                           text |-> "Profile"]>>,
              avatar |-> [isDonating |-> isUserDonating,
                          isTopContributor |-> isTopContributor,
                          picture |-> user.picture,
                          userName |-> user.username]]

NowValues == (0 - MaxNow)..(100 + MaxNow)

PendingValues == {Undefined, Bool(FALSE), Bool(TRUE)}

UserProps ==
    {Undefined, Null} \cup
    {[t |-> "object", username |-> u, isDonating |-> d, yearsTopContributor |-> y,
      picture |-> Str(<<"p">>)] :
        u \in {Undefined, Str(<<>>), Str(<<"b","o","b">>), Str(<<"A","m","y">>)},
        d \in {Undefined, Bool(FALSE), Bool(TRUE)},
        y \in {Undefined, Array(<<>>), Array(<<2023>>)}}

RenderProgressBar ==
    /\ UNCHANGED <<users, inflight, last, nreq>>
    /\ \E now \in NowValues :
          ui' = [component |-> "ProgressBar", props |-> [now |-> now],
                 output |-> ProgressBar(now)]

RenderAuthOrProfile ==
    /\ UNCHANGED <<users, inflight, last, nreq>>
    /\ \E user \in UserProps, pending \in PendingValues :
          ui' = [component |-> "AuthOrProfile", props |-> [user |-> user, pending |-> pending],
                 output |-> AuthOrProfile(user, pending)]

NextUI == RenderProgressBar \/ RenderAuthOrProfile

SpecUI == Init /\ [][NextUI]_vars

--------------------------------------------------------------------------
(* What the claims speak of *)

Answered == last.endpoint # "none"

\* The replies sent so far: every request received but those still in flight.
RepliesSent == nreq - Cardinality({s \in Sessions : inflight[s].pc # "idle"})

\* The translation keys the handlers use.
MessageKeys ==
    {Key(k) : k \in
        {"flash.wrong-updating", "flash.privacy-updated", "flash.email-valid",
         "flash.updated-themes", "flash.updated-socials", "flash.username-used",
         "flash.username-taken", "flash.username-updated", "flash.updated-about-me",
         "flash.keyboard-shortcut-updated", "flash.subscribe-to-quincy-updated",
         "buttons.accepted-honesty", "flash.portfolio-item-updated"}}

\* The reply was written by the settings plugin, not by the server's default
\* error handler.
ByThePlugin == last.reply.by \in {"handler", "updateErrorHandler"}

--------------------------------------------------------------------------
(* C1 *)

\* The fixed messages: the keys, and the one fixed English sentence.
FixedMessages == MessageKeys \cup {<<"Email format is invalid">>}

\* C1, as claimed: the message of every reply of a settings endpoint is one
\* of a fixed set, none is built from the request or from the validator's text.
C1_EveryMessageIsAKey ==
    (Answered /\ ByThePlugin) => last.reply.message \in FixedMessages

\* The replies whose message is put together from the request or from the
\* validator's text: the 'info' replies of /update-my-email, and the rejections
\* of /update-my-username for a body that failed the schema or a name
\* isValidUsername refuses.
C1_BuiltMessage ==
    \/ /\ last.endpoint = "update-my-email"
       /\ last.reply.type = "info"
    \/ /\ last.endpoint = "update-my-username"
       /\ last.reply.status = 400
       /\ \/ last.validationError
          \/ ~isValidUsername(toLowerCase(trim(last.body.username.v))).valid

\* C1, amended: every reply written by a handler or by updateErrorHandler has
\* a message of the fixed set, a translation key but for 'Email format is
\* invalid', except the built messages of /update-my-email and
\* /update-my-username.
C1_MessageIsAKeyUnlessBuilt ==
    (Answered /\ ByThePlugin /\ ~C1_BuiltMessage) =>
        /\ last.reply.message \in FixedMessages
        /\ last.reply.message \in MessageKeys
                \/ (last.endpoint = "update-my-email" /\ last.validationError)

\* /update-my-username rejected a well-formed, valid name with a key.
C1_Witness ==
    /\ last.endpoint = "update-my-username"
    /\ last.reply.status = 400
    /\ ~C1_BuiltMessage
    /\ last.reply.message = Key("flash.username-taken")

--------------------------------------------------------------------------
(* C2 *)

\* C2, as claimed: a request whose body passes the schema makes exactly one
\* update call, one whose body fails it makes none (read here of the requests
\* that reach the route and meet no ORM failure).
C2_OneUpdateIffValid ==
    (Answered /\ last.hook = "ok" /\ ~last.ormFailed) =>
        IF last.validationError THEN last.updates = 0 ELSE last.updates = 1

\* C2, amended: a request makes at most one update call, and none when its
\* body fails the schema or its handler does not run; the handlers other than
\* those of /update-my-email and /update-my-username make exactly one; these
\* two make none before a reply of status 400 or of type 'info' and exactly
\* one before a success reply.
C2_AtMostOneUpdate ==
    Answered =>
        /\ last.updates \in {0, 1}
        /\ (last.validationError \/ ~last.handlerRan) => last.updates = 0
        /\ (last.handlerRan /\ last.endpoint \notin AttachValidationRoutes)
                => last.updates = 1
        /\ (last.reply.status = 400 \/ last.reply.type = "info") => last.updates = 0
        /\ last.reply.type = "success" => last.updates = 1

\* A body that passed the schema, and no update call: the name was taken.
C2_Witness ==
    /\ last.endpoint = "update-my-username"
    /\ ~last.validationError
    /\ last.reply.message = Key("flash.username-taken")
    /\ last.updates = 0

--------------------------------------------------------------------------
(* C3 *)

\* A portfolio as stored: the items in order, a missing field as ''.
C3_StoredPortfolio(portfolio) ==
    [i \in 1..Len(portfolio) |->
        [f \in PortfolioFields |->
            IF IsString(portfolio[i][f]) THEN portfolio[i][f].v ELSE <<>>]]

\* The fields the endpoint names, holding the values of the body as sent.
C3_BodyFields(endpoint, body) ==
    CASE endpoint = "update-my-profileui" -> [profileUI |-> body.profileUI]
      [] endpoint = "update-privacy-terms" ->
            [acceptedPrivacyTerms |-> TRUE, sendQuincyEmail |-> body.quincyEmails]
      [] endpoint = "update-my-portfolio" ->
            [portfolio |-> C3_StoredPortfolio(body.portfolio)]
      [] endpoint = "update-my-email" -> [email |-> body.email.v]
      [] endpoint = "update-my-username" -> [username |-> body.username.v]
      [] endpoint = "update-my-about" ->
            IF IsString(body.picture)
            THEN [about |-> body.about, name |-> body.name, location |-> body.location,
                  picture |-> body.picture.v]
            ELSE [about |-> body.about, name |-> body.name, location |-> body.location]
      [] OTHER -> body

C3_StartsWith(str, prefix) ==
    Len(str) >= Len(prefix) /\ SubSeq(str, 1, Len(prefix)) = prefix

\* The same, as the handlers store them: the username trimmed and in lower
\* case with the trimmed name as usernameDisplay, the email in lower case, the
\* picture only when it is an http: or https: URL.
C3_StoredFields(endpoint, body) ==
    CASE endpoint = "update-my-email" -> [email |-> toLowerCase(body.email.v)]
      [] endpoint = "update-my-username" ->
            [username |-> toLowerCase(trim(body.username.v)),
             usernameDisplay |-> Str(trim(body.username.v))]
      [] endpoint = "update-my-about" ->
            IF /\ IsString(body.picture)
               /\ \/ C3_StartsWith(toLowerCase(body.picture.v), <<"h","t","t","p",":">>)
                  \/ C3_StartsWith(toLowerCase(body.picture.v), <<"h","t","t","p","s",":">>)
            THEN [about |-> body.about, name |-> body.name, location |-> body.location,
                  picture |-> body.picture.v]
            ELSE [about |-> body.about, name |-> body.name, location |-> body.location]
      [] OTHER -> C3_BodyFields(endpoint, body)

\* The step replaced `fields` in the record of user `id` and changed nothing
\* else in the store.
C3_OnlyThese(id, fields) ==
    /\ \A u \in UserIds \ {id} : users'[u] = users[u]
    /\ \A f \in DOMAIN fields : users'[id][f] = fields[f]
    /\ \A f \in DOMAIN users[id] \ DOMAIN fields : users'[id][f] = users[id][f]
    /\ DOMAIN users'[id] = DOMAIN users[id]

\* C3, as claimed: after a success reply the fields the endpoint names hold
\* the values of the request body, and nothing else in the store changed.
C3_BodyPersistedAsSent ==
    [][(last'.reply.type = "success" /\ RepliesSent' = RepliesSent + 1)
            => C3_OnlyThese(last'.session, C3_BodyFields(last'.endpoint, last'.body))]_vars

\* C3, amended: after a success reply the fields the endpoint names hold the
\* values of the request body as the handler stores them (the username
\* trimmed and lower-cased, with usernameDisplay the trimmed name; the email
\* lower-cased; the picture only when it is an http: or https: URL, and left
\* as it was otherwise), and nothing else in the store changed.
C3_BodyPersistedAsStored ==
    [][(last'.reply.type = "success" /\ RepliesSent' = RepliesSent + 1)
            => C3_OnlyThese(last'.session, C3_StoredFields(last'.endpoint, last'.body))]_vars

\* A username was stored in a form other than the one sent.
C3_Witness ==
    /\ last.endpoint = "update-my-username"
    /\ last.reply.type = "success"
    /\ users[last.session].username # last.body.username.v
    /\ users[last.session].username = toLowerCase(trim(last.body.username.v))

--------------------------------------------------------------------------
(* C4 *)

\* C4, as claimed: when an ORM call fails while a request is handled, the
\* reply has status 500 and the body {'flash.wrong-updating', 'danger'}.
C4_OrmFailureIs500WrongUpdating ==
    (Answered /\ last.ormFailed) =>
        /\ last.reply.status = 500
        /\ last.reply.message = Key("flash.wrong-updating")
        /\ last.reply.type = "danger"

--------------------------------------------------------------------------
(* C5 *)

\* C5, as claimed: /update-my-email sends status 200 only with
\* {'flash.email-valid', 'success'}, and type 'info' only with status 204 or 400.
C5_EmailRepliesFollowTheSchema ==
    (last.endpoint = "update-my-email" /\ last.reply.by = "handler") =>
        /\ last.reply.status = 200 =>
                /\ last.reply.message = Key("flash.email-valid")
                /\ last.reply.type = "success"
        /\ last.reply.type = "info" => last.reply.status \in {204, 400}

--------------------------------------------------------------------------
(* C6 *)

\* C6: on a route registered with updateErrorHandler, a body that fails the
\* schema is answered 400 {'flash.wrong-updating', 'danger'} with the handler
\* not run and the store unchanged, and an error that is no validation error
\* is answered by the server's default error handler.
C6_UpdateErrorHandler ==
    [][(RepliesSent' = RepliesSent + 1 /\ last'.endpoint \in UpdateErrorHandlerRoutes) =>
            /\ last'.validationError =>
                    /\ last'.reply.status = 400
                    /\ last'.reply.message = Key("flash.wrong-updating")
                    /\ last'.reply.type = "danger"
                    /\ ~last'.handlerRan
                    /\ users' = users
            /\ last'.hook # "ok" =>
                    /\ last'.reply.by = "fastify.errorHandler"
                    /\ last'.reply.message \notin MessageKeys
                    /\ ~last'.handlerRan
                    /\ users' = users]_vars

\* A body failed the schema of /update-my-portfolio and got the 400.
C6_Witness ==
    /\ last.endpoint = "update-my-portfolio"
    /\ last.validationError
    /\ last.reply.by = "updateErrorHandler"
    /\ last.reply.status = 400

--------------------------------------------------------------------------
(* C7 *)

\* C7, as claimed: no two users have the same username, whatever the
\* interleaving of /update-my-username requests.
C7_UsernamesUnique ==
    \A u, v \in UserIds : u # v => users[u].username # users[v].username

--------------------------------------------------------------------------
(* C8 *)

C8_Rejected == last.reply.status = 400 /\ last.reply.type = "info" /\ last.updates = 0

\* C8, as claimed: when no ORM call fails, /update-my-username rejects with
\* status 400, type 'info' and no update, in this order: an unchanged name
\* ('flash.username-used'), a body that failed the schema, a name
\* isValidUsername refuses, a profane, blocklisted or taken name
\* ('flash.username-taken'); and a change of letter case alone succeeds.
C8_RejectsInOrder ==
    (last.endpoint = "update-my-username" /\ last.handlerRan /\ ~last.ormFailed) =>
        LET isString == IsString(last.body.username)
            newDisplay == trim(last.body.username.v)
            newUsername == toLowerCase(newDisplay)
            oldUsername == toLowerCase(last.seen.user.username)
            oldDisplay == last.seen.user.usernameDisplay
            unchanged ==
                /\ isString
                /\ newUsername = oldUsername
                /\ IsString(oldDisplay)
                /\ newDisplay = trim(oldDisplay.v)
        IN  IF unchanged
            THEN C8_Rejected /\ last.reply.message = Key("flash.username-used")
            ELSE IF last.validationError THEN C8_Rejected
            ELSE IF ~isValidUsername(newUsername).valid THEN C8_Rejected
            ELSE IF \/ isProfane(newUsername)
                    \/ newUsername \in blocklistedUsernames
                    \/ (newUsername # oldUsername /\ last.seen.count > 0)
            THEN C8_Rejected /\ last.reply.message = Key("flash.username-taken")
            ELSE last.reply.type = "success" /\ last.updates = 1

--------------------------------------------------------------------------
(* C9 *)

\* C9, as claimed: when no ORM call fails, /update-my-username answers a body
\* that failed the schema with status 400 and type 'info', never with 500.
C9_InvalidBodyIs400 ==
    (last.endpoint = "update-my-username" /\ last.validationError /\ ~last.ormFailed) =>
        /\ last.reply.status = 400
        /\ last.reply.type = "info"
        /\ last.updates = 0

--------------------------------------------------------------------------
(* C10 *)

C10_DigitValue(c) == (CHOOSE i \in DOMAIN DigitChars : DigitChars[i] = c) - 1

RECURSIVE C10_ParseNat(_)
C10_ParseNat(str) ==
    IF str = <<>> THEN 0
    ELSE 10 * C10_ParseNat(SubSeq(str, 1, Len(str) - 1)) + C10_DigitValue(str[Len(str)])

C10_ParseInt(str) ==
    IF Head(str) = "-" THEN 0 - C10_ParseNat(Tail(str)) ELSE C10_ParseNat(str)

C10_SignedIn(user) ==
    /\ user.t = "object"
    /\ IsString(user.username)
    /\ user.username.v # <<>>

\* C10: AuthOrProfile renders the skeleton whenever pending is truthy; else
\* the Curriculum link and Sign In when there is no user or no username; else
\* the Curriculum link and a Profile link to /<username>, its avatar marked
\* top contributor only when yearsTopContributor is non-empty.  ProgressBar
\* gives its percent element the width `now` followed by '%', unclamped.
C10_Components ==
    /\ ui.component = "AuthOrProfile" =>
        LET user == ui.props.user
            pending == ui.props.pending
            out == ui.output
        IN  IF pending = Bool(TRUE)
            THEN out = [kind |-> "nav-skeleton"]
            ELSE IF ~C10_SignedIn(user)
            THEN /\ out.kind = "sign-in"
                 /\ out.links = <<CurriculumLink>>
                 /\ out.login = "Sign In"
            ELSE /\ out.kind = "profile"
                 /\ Len(out.links) = 2
                 /\ out.links[1] = CurriculumLink
                 /\ out.links[2].text = "Profile"
                 /\ out.links[2].to = <<"/">> \o user.username.v
                 /\ out.avatar.userName = user.username
                 /\ out.avatar.isTopContributor = Bool(TRUE) =>
                        /\ user.yearsTopContributor.t = "array"
                        /\ Len(user.yearsTopContributor.v) > 0
    /\ ui.component = "ProgressBar" =>
        LET width == ui.output[2].style.width
        IN  /\ Len(ui.output) = 2
            /\ width[Len(width)] = "%"
            /\ C10_ParseInt(SubSeq(width, 1, Len(width) - 1)) = ui.props.now

\* A signed-in user was supplied while pending, and the skeleton was rendered.
C10_Witness ==
    /\ ui.component = "AuthOrProfile"
    /\ ui.props.pending = Bool(TRUE)
    /\ C10_SignedIn(ui.props.user)
    /\ ui.output.kind = "nav-skeleton"

==========================================================================
